---- MODULE Spec2Model ----
(***************************************************************************)
(* Model of script/utils/count_tex_words.py: the text cleaner and word     *)
(* counter, the include path resolver, the recursive document tree builder *)
(* and the tree renderer / aggregator.                                     *)
(*                                                                         *)
(* Strings are sequences of atoms.  An atom is one character ("a", "1",    *)
(* " ", "\n", ".", "{", "}", "%", "$", the CJK character U+4E2D, written "U+4E2D") or one      *)
(* fixed multi-character piece of text: a command name ("\\cite",          *)
(* "\\input", "\\include", "\\foo"), a display math delimiter ("\\[",      *)
(* "\\]"), the suffix ".tex", the directory prefix "D/" (it stands for     *)
(* "body/graduate/") and "/graduate/" (what is left of "D/" when a         *)
(* command name swallows its leading letters).                             *)
(***************************************************************************)
EXTENDS Integers, Sequences, FiniteSets, TLC

VARIABLES
    text,            \* SpecCount: the content handed to count_words_in_content
    counted,         \* SpecCount: its result <<num_chinese, num_english>>, or NotCounted
    files,           \* file system: canonical path of each existing file |-> [readable, content]
    links,           \* file system: path of each symbolic link |-> the canonical path it names
    r_base,          \* SpecResolve: base_path, or NoPath (None)
    r_input,         \* SpecResolve: input_path
    r_result,        \* SpecResolve: the returned path, or NoPath before the call
    root_arg,        \* main: args.root_file
    max_depth,       \* main: args.max_depth as the rendering reads it, {} for None, {d} for d
    pc,              \* position: "main", "call", "loop", "ret", "print", "done"
    arg,             \* process_file: file_path of the call being entered
    stack,           \* process_file: the frames of the calls inside their for loop
    nodes,           \* every node dict created so far, a node is named by its index
    processed_files, \* the set of resolved paths shared by the whole run
    ret,             \* process_file: the returned node, None for None
    root_node,       \* main: root_node
    output           \* the lines printed so far

vars == <<text, counted, files, links, r_base, r_input, r_result, root_arg, max_depth,
          pc, arg, stack, nodes, processed_files, ret, root_node, output>>
countVars == <<text, counted>>
fsVars == <<files, links>>
resolveVars == <<r_base, r_input, r_result>>
otherVars == <<countVars, fsVars, resolveVars>>
treeVars == <<root_arg, max_depth, pc, arg, stack, nodes, processed_files, ret, root_node, output>>

NotCounted == <<-1, -1>>
NoPath == <<"<none>">>
None == 0
NoError == "<no error key>"

(***************************************************************************)
(* Sequence helpers                                                        *)
(***************************************************************************)
RECURSIVE SeqsUpTo(_, _)
SeqsUpTo(S, n) ==
    IF n = 0 THEN {<<>>}
    ELSE LET shorter == SeqsUpTo(S, n - 1)
         IN  shorter \cup {Append(s, x) : s \in shorter, x \in S}

\* the smallest index j in lo..Len(s) with s[j] = a, or 0
FirstAt(s, lo, a) ==
    LET J == {j \in lo..Len(s) : s[j] = a}
    IN  IF J = {} THEN 0 ELSE CHOOSE j \in J : \A k \in J : j <= k

(***************************************************************************)
(* clean_tex_content                                                       *)
(***************************************************************************)
Letters == {"a", "b"}
CommandAtoms == {"\\cite", "\\input", "\\include", "\\foo"}
\* ignored_commands, in list order (the other entries behave like "\\cite")
ignored_commands == <<"\\cite", "\\input", "\\include">>

\* re.sub(r'%.*', '', content): from a "%" up to, not including, the newline
RECURSIVE StripFrom(_, _, _)
StripFrom(s, i, inComment) ==
    IF i > Len(s) THEN <<>>
    ELSE IF s[i] = "\n" THEN <<"\n">> \o StripFrom(s, i + 1, FALSE)
    ELSE IF inComment \/ s[i] = "%" THEN StripFrom(s, i + 1, TRUE)
    ELSE <<s[i]>> \o StripFrom(s, i + 1, FALSE)

StripComments(s) == StripFrom(s, 1, FALSE)

\* re.sub(r'\\\[.*?\\\]', '', content, flags=re.DOTALL)
RECURSIVE DisplayFrom(_, _)
DisplayFrom(s, i) ==
    IF i > Len(s) THEN <<>>
    ELSE LET j == FirstAt(s, i + 1, "\\]")
         IN  IF s[i] = "\\[" /\ j > 0 THEN DisplayFrom(s, j + 1)
             ELSE <<s[i]>> \o DisplayFrom(s, i + 1)

RemoveDisplayMath(s) == DisplayFrom(s, 1)

\* re.sub(r'\$\$.*?\$\$', '', content, flags=re.DOTALL)
RECURSIVE DollarsFrom(_, _)
DollarsFrom(s, i) ==
    IF i > Len(s) THEN <<>>
    ELSE LET opens == s[i] = "$" /\ i + 1 <= Len(s) /\ s[i + 1] = "$"
             J == {j \in (i + 2)..(Len(s) - 1) : s[j] = "$" /\ s[j + 1] = "$"}
         IN  IF opens /\ J # {}
             THEN DollarsFrom(s, (CHOOSE j \in J : \A k \in J : j <= k) + 2)
             ELSE <<s[i]>> \o DollarsFrom(s, i + 1)

RemoveDoubleDollar(s) == DollarsFrom(s, 1)

\* re.sub(r'\$.*?\$', '', content): "." does not match a newline
RECURSIVE InlineFrom(_, _)
InlineFrom(s, i) ==
    IF i > Len(s) THEN <<>>
    ELSE LET j == FirstAt(s, i + 1, "$")
             n == FirstAt(s, i + 1, "\n")
         IN  IF s[i] = "$" /\ j > 0 /\ (n = 0 \/ j < n) THEN InlineFrom(s, j + 1)
             ELSE <<s[i]>> \o InlineFrom(s, i + 1)

RemoveInlineMath(s) == InlineFrom(s, 1)

\* re.sub(r'\\' + cmd + r'\{[^}]*\}', '', content)
RECURSIVE CommandFrom(_, _, _)
CommandFrom(s, cmd, i) ==
    IF i > Len(s) THEN <<>>
    ELSE LET j == FirstAt(s, i + 2, "}")
         IN  IF s[i] = cmd /\ i + 1 <= Len(s) /\ s[i + 1] = "{" /\ j > 0
             THEN CommandFrom(s, cmd, j + 1)
             ELSE <<s[i]>> \o CommandFrom(s, cmd, i + 1)

RECURSIVE RemoveIgnored(_, _)
RemoveIgnored(s, k) ==
    IF k > Len(ignored_commands) THEN s
    ELSE RemoveIgnored(CommandFrom(s, ignored_commands[k], 1), k + 1)

\* re.sub(r'\\[a-zA-Z]+', ' ', content): the name and the letters glued to it
RECURSIVE NamesFrom(_, _, _)
NamesFrom(s, i, inName) ==
    IF i > Len(s) THEN <<>>
    ELSE IF s[i] \in CommandAtoms THEN <<" ">> \o NamesFrom(s, i + 1, TRUE)
    ELSE IF inName /\ s[i] \in Letters THEN NamesFrom(s, i + 1, TRUE)
    ELSE IF inName /\ s[i] = "D/" THEN <<"/graduate/">> \o NamesFrom(s, i + 1, FALSE)
    ELSE <<s[i]>> \o NamesFrom(s, i + 1, FALSE)

RemoveCommandNames(s) == NamesFrom(s, 1, FALSE)

\* the braces deleted instead of replaced by spaces
ReplaceBraces_Deleted(s) == SelectSeq(s, LAMBDA a : a \notin {"{", "}"})

\* content.replace('{', ' ').replace('}', ' ')
ReplaceBraces(s) == [i \in 1..Len(s) |-> IF s[i] \in {"{", "}"} THEN " " ELSE s[i]]

clean_tex_content(content) ==
    ReplaceBraces(RemoveCommandNames(RemoveIgnored(
        RemoveInlineMath(RemoveDoubleDollar(RemoveDisplayMath(
            StripComments(content)))), 1)))

(***************************************************************************)
(* count_words_in_content                                                  *)
(***************************************************************************)
IsChinese(a) == a = "U+4E2D"                       \* [\u4e00-\u9fff]
IsSpace(a) == a \in {" ", "\n"}               \* \s
\* atoms that hold a \w character: they survive re.sub(r'[^\w\s]', '', ...)
HasWordChar(a) == a \in Letters \cup {"1", "U+4E2D", ".tex", "D/", "/graduate/"} \cup CommandAtoms

\* len(s.split()): the number of maximal runs of non-whitespace
RECURSIVE SplitLen(_, _, _)
SplitLen(s, i, inWord) ==
    IF i > Len(s) THEN 0
    ELSE IF IsSpace(s[i]) THEN SplitLen(s, i + 1, FALSE)
    ELSE (IF inWord THEN 0 ELSE 1) + SplitLen(s, i + 1, TRUE)

count_words_in_content(content) ==
    LET cleaned_content == clean_tex_content(content)
        num_chinese == Cardinality({i \in 1..Len(cleaned_content) : IsChinese(cleaned_content[i])})
        content_no_chinese == [i \in 1..Len(cleaned_content) |->
                                 IF IsChinese(cleaned_content[i]) THEN " " ELSE cleaned_content[i]]
        content_no_punct == SelectSeq(content_no_chinese, LAMBDA a : HasWordChar(a) \/ IsSpace(a))
        num_english == SplitLen(content_no_punct, 1, FALSE)
    IN  <<num_chinese, num_english>>

(***************************************************************************)
(* File system and paths.  A path is the string of its atoms.  The model   *)
(* has no absolute paths and no ".." components, so file_path.resolve()    *)
(* only follows symbolic links; the working directory prefix it adds is    *)
(* the same for every path and is left out.                                *)
(***************************************************************************)
\* Path.resolve()
Resolve(p) == IF p \in DOMAIN links THEN links[p] ELSE p

\* Path.exists()
Exists(p) == Resolve(p) \in DOMAIN files

\* Path.parent: the path up to its last directory separator
Parent(p) ==
    LET K == {k \in 1..Len(p) : p[k] = "D/"}
    IN  IF K = {} THEN <<>> ELSE SubSeq(p, 1, CHOOSE k \in K : \A m \in K : m <= k)

EndsWithTex(s) == Len(s) > 0 /\ s[Len(s)] = ".tex"

\* the referrer's directory tried before the working directory
resolve_path_RelativeFirst(base_path, input_path) ==
    LET with_ext == IF ~EndsWithTex(input_path) THEN input_path \o <<".tex">> ELSE input_path
        p_cwd == with_ext
        p_rel == Parent(base_path) \o with_ext
    IN  IF base_path # NoPath /\ Exists(p_rel) THEN p_rel
        ELSE p_cwd

resolve_path(base_path, input_path) ==
    LET with_ext == IF ~EndsWithTex(input_path) THEN input_path \o <<".tex">> ELSE input_path
        p_cwd == with_ext
        p_rel == Parent(base_path) \o with_ext
    IN  IF Exists(p_cwd) THEN p_cwd
        ELSE IF base_path # NoPath /\ Exists(p_rel) THEN p_rel
        ELSE p_cwd

(***************************************************************************)
(* process_file                                                            *)
(***************************************************************************)
\* re.findall(r'\\(?:input|include)\{([^}]+)\}', s)
RECURSIVE FindInputsFrom(_, _)
FindInputsFrom(s, i) ==
    IF i > Len(s) THEN <<>>
    ELSE LET j == FirstAt(s, i + 2, "}")
         IN  IF /\ s[i] \in {"\\input", "\\include"}
                /\ i + 1 <= Len(s) /\ s[i + 1] = "{"
                /\ j > i + 2
             THEN <<SubSeq(s, i + 2, j - 1)>> \o FindInputsFrom(s, j + 1)
             ELSE FindInputsFrom(s, i + 1)

FindInputs(s) == FindInputsFrom(s, 1)

\* nested calls of process_file the interpreter allows (its recursion limit)
MaxStack == 4

ErrorNode(file_path, msg) ==
    [path |-> file_path, cn |-> 0, en |-> 0, total |-> 0, error |-> msg, children |-> <<>>]

\* the path looked up as it is spelled, not resolved
Seen_Unresolved(file_path) == file_path \in processed_files

\* lines 73-76: resolved_path in processed_files
Seen(file_path) == Resolve(file_path) \in processed_files

\* lines 72-77: the path was already processed
AlreadyProcessed ==
    /\ pc = "call"
    /\ Seen(arg)
    /\ ret' = None
    /\ pc' = "ret"
    /\ UNCHANGED <<root_arg, max_depth, arg, stack, nodes, processed_files, root_node, output>>
    /\ UNCHANGED otherVars

\* the missing file dropped like an already processed one
NotFound_Dropped ==
    /\ pc = "call"
    /\ ~Seen(arg)
    /\ ~Exists(arg)
    /\ ret' = None
    /\ pc' = "ret"
    /\ UNCHANGED <<root_arg, max_depth, arg, stack, nodes, processed_files, root_node, output>>
    /\ UNCHANGED otherVars

\* the path of the missing file recorded as processed
NotFound_Marked ==
    /\ pc = "call"
    /\ ~Seen(arg)
    /\ ~Exists(arg)
    /\ processed_files' = processed_files \cup {Resolve(arg)}
    /\ nodes' = Append(nodes, ErrorNode(arg, "File not found"))
    /\ ret' = Len(nodes) + 1
    /\ pc' = "ret"
    /\ UNCHANGED <<root_arg, max_depth, arg, stack, root_node, output>>
    /\ UNCHANGED otherVars

\* lines 79-80: the file does not exist
NotFound ==
    /\ pc = "call"
    /\ ~Seen(arg)
    /\ ~Exists(arg)
    /\ nodes' = Append(nodes, ErrorNode(arg, "File not found"))
    /\ ret' = Len(nodes) + 1
    /\ pc' = "ret"
    /\ UNCHANGED <<root_arg, max_depth, arg, stack, processed_files, root_node, output>>
    /\ UNCHANGED otherVars

\* lines 82-88: the file exists and reading it raises
ReadFails ==
    /\ pc = "call"
    /\ ~Seen(arg)
    /\ Exists(arg)
    /\ ~files[Resolve(arg)].readable
    /\ processed_files' = processed_files \cup {Resolve(arg)}
    /\ nodes' = Append(nodes, ErrorNode(arg, "str(e)"))
    /\ ret' = Len(nodes) + 1
    /\ pc' = "ret"
    /\ UNCHANGED <<root_arg, max_depth, arg, stack, root_node, output>>
    /\ UNCHANGED otherVars

\* the file read without being recorded as processed
ReadFile_NotMarked ==
    /\ pc = "call"
    /\ ~Seen(arg)
    /\ Exists(arg)
    /\ files[Resolve(arg)].readable
    /\ Len(stack) < MaxStack
    /\ LET content == files[Resolve(arg)].content
           content_no_comments == StripComments(content)
           inputs == FindInputs(content_no_comments)
           c == count_words_in_content(content)
           node == [path |-> arg, cn |-> c[1], en |-> c[2], total |-> c[1] + c[2],
                    error |-> NoError, children |-> <<>>]
       IN  /\ processed_files' = processed_files
           /\ nodes' = Append(nodes, node)
           /\ stack' = Append(stack, [node |-> Len(nodes) + 1, file_path |-> arg, inputs |-> inputs])
    /\ pc' = "loop"
    /\ UNCHANGED <<root_arg, max_depth, arg, ret, root_node, output>>
    /\ UNCHANGED otherVars

\* the inputs searched in the text with its comments
ReadFile_RawInputs ==
    /\ pc = "call"
    /\ ~Seen(arg)
    /\ Exists(arg)
    /\ files[Resolve(arg)].readable
    /\ Len(stack) < MaxStack
    /\ LET content == files[Resolve(arg)].content
           content_no_comments == StripComments(content)
           inputs == FindInputs(content)
           c == count_words_in_content(content)
           node == [path |-> arg, cn |-> c[1], en |-> c[2], total |-> c[1] + c[2],
                    error |-> NoError, children |-> <<>>]
       IN  /\ processed_files' = processed_files \cup {Resolve(arg)}
           /\ nodes' = Append(nodes, node)
           /\ stack' = Append(stack, [node |-> Len(nodes) + 1, file_path |-> arg, inputs |-> inputs])
    /\ pc' = "loop"
    /\ UNCHANGED <<root_arg, max_depth, arg, ret, root_node, output>>
    /\ UNCHANGED otherVars

\* lines 82-103: the file is read, scanned for inputs and counted
ReadFile ==
    /\ pc = "call"
    /\ ~Seen(arg)
    /\ Exists(arg)
    /\ files[Resolve(arg)].readable
    /\ Len(stack) < MaxStack
    /\ LET content == files[Resolve(arg)].content
           content_no_comments == StripComments(content)
           inputs == FindInputs(content_no_comments)
           c == count_words_in_content(content)
           node == [path |-> arg, cn |-> c[1], en |-> c[2], total |-> c[1] + c[2],
                    error |-> NoError, children |-> <<>>]
       IN  /\ processed_files' = processed_files \cup {Resolve(arg)}
           /\ nodes' = Append(nodes, node)
           /\ stack' = Append(stack, [node |-> Len(nodes) + 1, file_path |-> arg, inputs |-> inputs])
    /\ pc' = "loop"
    /\ UNCHANGED <<root_arg, max_depth, arg, ret, root_node, output>>
    /\ UNCHANGED otherVars

Top == stack[Len(stack)]

\* lines 106-108: the next input is resolved and process_file is called on it
ProcessInput ==
    /\ pc = "loop"
    /\ Top.inputs # <<>>
    /\ LET inp == Head(Top.inputs)
           child_path == resolve_path(Top.file_path, inp)
       IN  arg' = child_path
    /\ stack' = [stack EXCEPT ![Len(stack)].inputs = Tail(@)]
    /\ pc' = "call"
    /\ UNCHANGED <<root_arg, max_depth, nodes, processed_files, ret, root_node, output>>
    /\ UNCHANGED otherVars

\* line 112: the loop is over, the node is returned
ReturnNode ==
    /\ pc = "loop"
    /\ Top.inputs = <<>>
    /\ ret' = Top.node
    /\ stack' = SubSeq(stack, 1, Len(stack) - 1)
    /\ pc' = "ret"
    /\ UNCHANGED <<root_arg, max_depth, arg, nodes, processed_files, root_node, output>>
    /\ UNCHANGED otherVars

\* lines 108-110: the caller's loop receives child_node
ReceiveChild ==
    /\ pc = "ret"
    /\ stack # <<>>
    /\ nodes' = IF ret # None
                THEN [nodes EXCEPT ![Top.node].children = Append(@, ret)]
                ELSE nodes
    /\ pc' = "loop"
    /\ UNCHANGED <<root_arg, max_depth, arg, stack, processed_files, ret, root_node, output>>
    /\ UNCHANGED otherVars

\* line 172: main receives root_node
ReceiveRoot ==
    /\ pc = "ret"
    /\ stack = <<>>
    /\ root_node' = ret
    /\ pc' = "print"
    /\ UNCHANGED <<root_arg, max_depth, arg, stack, nodes, processed_files, ret, output>>
    /\ UNCHANGED otherVars

(***************************************************************************)
(* print_tree and calculate_total_stats                                    *)
(***************************************************************************)
Line(kind, prefix, connector, path, cn, en, total, error) ==
    [kind |-> kind, prefix |-> prefix, connector |-> connector, path |-> path,
     cn |-> cn, en |-> en, total |-> total, error |-> error]

TextLine(kind, cn, en) == Line(kind, <<>>, "", <<>>, cn, en, cn + en, NoError)

RECURSIVE print_tree(_, _, _, _, _)
RECURSIVE PrintChildren(_, _, _, _, _)
print_tree(node, prefix, is_last, current_depth, max_d) ==
    LET connector == IF is_last THEN "+-- " ELSE "|-- "
        line == Line("node", prefix, connector, nodes[node].path, nodes[node].cn,
                     nodes[node].en, nodes[node].total, nodes[node].error)
        child_prefix == prefix \o <<IF is_last THEN "    " ELSE "|   ">>
    IN  IF max_d # {} /\ (\A d \in max_d : current_depth >= d)
        THEN <<line>>
        ELSE <<line>> \o PrintChildren(nodes[node].children, 1, child_prefix,
                                       current_depth + 1, max_d)

\* the loop "for i, child in enumerate(children)" from its i-th iteration on
PrintChildren(children, i, prefix, depth, max_d) ==
    IF i > Len(children) THEN <<>>
    ELSE print_tree(children[i], prefix, i = Len(children), depth, max_d)
             \o PrintChildren(children, i + 1, prefix, depth, max_d)

RECURSIVE calculate_total_stats(_)
RECURSIVE TotalOfChildren(_, _)
RECURSIVE TotalOfChildren_Shallow(_, _)
calculate_total_stats(node) ==
    LET t == TotalOfChildren(nodes[node].children, 1)
    IN  <<nodes[node].cn + t[1], nodes[node].en + t[2]>>

\* the children's own counts added, their descendants left out
TotalOfChildren_Shallow(children, i) ==
    IF i > Len(children) THEN <<0, 0>>
    ELSE LET rest == TotalOfChildren_Shallow(children, i + 1)
         IN  <<nodes[children[i]].cn + rest[1], nodes[children[i]].en + rest[2]>>

TotalOfChildren(children, i) ==
    IF i > Len(children) THEN <<0, 0>>
    ELSE LET c == calculate_total_stats(children[i])
             rest == TotalOfChildren(children, i + 1)
         IN  <<c[1] + rest[1], c[2] + rest[2]>>

(***************************************************************************)
(* main                                                                    *)
(***************************************************************************)
MaxDepthArg == 2     \* largest --max-depth
\* the values of args.max_depth: {} for None, {d} for the integer d
MaxDepths == {{}} \cup {{d} : d \in 0..MaxDepthArg}

\* lines 160-172: the root file is located and process_file is called on it
MainFound ==
    /\ pc = "main"
    /\ LET alt_path == <<"D/">> \o root_arg
       IN  /\ Exists(root_arg) \/ Exists(alt_path)
           /\ arg' = IF Exists(root_arg) THEN root_arg ELSE alt_path
    /\ processed_files' = {}
    /\ pc' = "call"
    /\ UNCHANGED <<root_arg, max_depth, stack, nodes, ret, root_node, output>>
    /\ UNCHANGED otherVars

\* lines 162-169: neither the root file nor its fallback exists
MainRootMissing ==
    /\ pc = "main"
    /\ ~Exists(root_arg)
    /\ ~Exists(<<"D/">> \o root_arg)
    /\ output' = <<Line("root not found", <<>>, "", root_arg, 0, 0, 0, NoError)>>
    /\ pc' = "done"
    /\ UNCHANGED <<root_arg, max_depth, arg, stack, nodes, processed_files, ret, root_node>>
    /\ UNCHANGED otherVars

\* lines 174-185: the tree and the grand total are printed; args.max_depth,
\* which nothing reads before line 181, is drawn here
MainPrint ==
    /\ pc = "print"
    /\ \E max_d \in MaxDepths :
        /\ max_depth' = max_d
        /\ LET root == nodes[root_node]
               children == root.children
               t == calculate_total_stats(root_node)
           IN  output' = <<TextLine("header", 0, 0),
                           Line("root", <<>>, "", root.path, root.cn, root.en, root.total, NoError)>>
                         \o PrintChildren(children, 1, <<>>, 1, max_d)
                         \o <<TextLine("separator", 0, 0), TextLine("grand total", t[1], t[2])>>
    /\ pc' = "done"
    /\ UNCHANGED <<root_arg, arg, stack, nodes, processed_files, ret, root_node>>
    /\ UNCHANGED otherVars

(***************************************************************************)
(* Inputs                                                                  *)
(***************************************************************************)
MaxPieces == 3       \* pieces of text in the whole document tree
MaxLen == 3          \* atoms in a text handed to count_words_in_content

Da == <<"D/", "a", ".tex">>
B == <<"b", ".tex">>
DB == <<"D/", "b", ".tex">>
DDB == <<"D/", "D/", "b", ".tex">>

\* include targets as they are written in the files
Targets == {<<"b">>, <<"D/", "b">>, <<"D/", "a", ".tex">>}

Pieces == {<<"U+4E2D", " ", "a", "\n">>, <<"%">>,
           <<"\\input", "{", "b", "}">>,
           <<"\\input", "{", "D/", "b", "}">>,
           <<"\\include", "{", "D/", "a", ".tex", "}">>}

RECURSIVE Concat(_)
Concat(ss) == IF ss = <<>> THEN <<>> ELSE Head(ss) \o Concat(Tail(ss))

NoLinks == [p \in {} |-> p]
Kinds == {"file", "unreadable", "missing"}

File(kind, content) == [readable |-> kind = "file", content |-> content]

\* the file systems: D/a.tex, b.tex and D/b.tex each a readable file, an
\* unreadable file or missing, b.tex possibly a link to D/b.tex, and at most
\* MaxPieces pieces of text spread over the readable files
FileSystem(f, l) ==
    \E s \in SeqsUpTo(Pieces, MaxPieces), ka, kd \in Kinds, kb \in Kinds \cup {"link"} :
      \E i \in 0..Len(s) : \E j \in i..Len(s) :
        /\ ka # "file" => i = 0
        /\ kb # "file" => j = i
        /\ kd # "file" => j = Len(s)
        /\ LET kind == (Da :> ka) @@ (B :> kb) @@ (DB :> kd)
               content == (Da :> Concat(SubSeq(s, 1, i))) @@ (B :> Concat(SubSeq(s, i + 1, j)))
                          @@ (DB :> Concat(SubSeq(s, j + 1, Len(s))))
           IN  f = [p \in {q \in {Da, B, DB} : kind[q] \in {"file", "unreadable"}} |->
                      File(kind[p], content[p])]
        /\ l = IF kb = "link" THEN (B :> DB) ELSE NoLinks

TreeIdle ==
    /\ root_arg = <<>> /\ max_depth = {} /\ pc = "idle" /\ arg = <<>> /\ stack = <<>>
    /\ nodes = <<>> /\ processed_files = {} /\ ret = None /\ root_node = None /\ output = <<>>
CountIdle == text = <<>> /\ counted = NotCounted
ResolveIdle == r_base = NoPath /\ r_input = <<>> /\ r_result = NoPath

(***************************************************************************)
(* Spec: one run of main                                                   *)
(***************************************************************************)
Init ==
    /\ FileSystem(files, links)
    /\ root_arg \in {<<"a", ".tex">>, Da}
    /\ max_depth = {}
    /\ pc = "main" /\ arg = <<>> /\ stack = <<>> /\ nodes = <<>>
    /\ processed_files = {} /\ ret = None /\ root_node = None /\ output = <<>>
    /\ CountIdle /\ ResolveIdle

Next ==
    \/ MainFound \/ MainRootMissing \/ MainPrint
    \/ AlreadyProcessed \/ NotFound \/ ReadFails \/ ReadFile
    \/ ProcessInput \/ ReturnNode \/ ReceiveChild \/ ReceiveRoot

Spec == Init /\ [][Next]_vars

(***************************************************************************)
(* SpecCount: count_words_in_content applied to every bounded text         *)
(***************************************************************************)
TextAtoms == {"a", "1", " ", "\n", ".", "{", "}", "U+4E2D", "%", "$", "\\foo"}

CountWords ==
    /\ counted = NotCounted
    /\ counted' = count_words_in_content(text)
    /\ UNCHANGED <<text, fsVars, resolveVars, treeVars>>

InitCount ==
    /\ text \in SeqsUpTo(TextAtoms, MaxLen)
    /\ counted = NotCounted
    /\ files = [p \in {} |-> p] /\ links = NoLinks
    /\ ResolveIdle /\ TreeIdle

NextCount == CountWords

SpecCount == InitCount /\ [][NextCount]_vars

(***************************************************************************)
(* SpecResolve: resolve_path applied to every target, referrer and set of  *)
(* existing files                                                          *)
(***************************************************************************)
ResolvePaths == {Da, B, DB, DDB}
ResolveInputs == Targets \cup {<<"b", ".tex">>, <<"D/", "b", ".tex">>}

CallResolvePath ==
    /\ r_result = NoPath
    /\ r_result' = resolve_path(r_base, r_input)
    /\ UNCHANGED <<r_base, r_input, countVars, fsVars, treeVars>>

InitResolve ==
    /\ \E E \in SUBSET ResolvePaths : files = [p \in E |-> File("file", <<>>)]
    /\ links \in {NoLinks, (B :> DB)}
    /\ r_base \in {NoPath, Da, B, DB}
    /\ r_input \in ResolveInputs
    /\ r_result = NoPath
    /\ CountIdle /\ TreeIdle

NextResolve == CallResolvePath

SpecResolve == InitResolve /\ [][NextResolve]_vars

(***************************************************************************)
(* C8: word counts of plain text                                           *)
(***************************************************************************)
\* no LaTeX command, no math delimiter, no comment marker
PlainText(s) ==
    \A i \in 1..Len(s) : s[i] \notin CommandAtoms \cup {"\\[", "\\]", "$", "%"}

IsPunct(a) == a \in {".", "{", "}"}
ChineseCount(s) == Cardinality({i \in 1..Len(s) : s[i] = "U+4E2D"})

\* the tokens of s: a token starts at an atom that is no separator and no
\* punctuation and is preceded, punctuation aside, by a separator or nothing
TokenStarts(s, IsSep(_)) ==
    {i \in 1..Len(s) :
        /\ ~IsSep(s[i]) /\ ~IsPunct(s[i])
        /\ \A k \in 1..(i - 1) :
              (~IsSep(s[k]) /\ ~IsPunct(s[k])) =>
                  \E m \in (k + 1)..(i - 1) : IsSep(s[m])}

WhitespaceTokens(s) == Cardinality(TokenStarts(s, LAMBDA a : a \in {" ", "\n"}))
SeparatedTokens(s) ==
    Cardinality(TokenStarts(s, LAMBDA a : a \in {" ", "\n", "{", "}", "U+4E2D"}))

\* C8 as stated: for every text with no LaTeX command, math delimiter or
\* comment marker the English count is the number of whitespace-separated
\* tokens of the text after punctuation stripping and the Chinese count the
\* number of CJK characters.
C8_AsStated ==
    (counted # NotCounted /\ PlainText(text)) =>
        counted = <<ChineseCount(text), WhitespaceTokens(text)>>

\* C8 amended: for every such text the Chinese count is the number of CJK
\* characters and the English count is the number of tokens that remain when
\* every brace and every CJK character separates tokens as whitespace does
\* and the other punctuation is stripped.
C8_PlainTextCounts ==
    (counted # NotCounted /\ PlainText(text)) =>
        counted = <<ChineseCount(text), SeparatedTokens(text)>>

C8_Witness ==
    /\ counted # NotCounted /\ PlainText(text)
    /\ \E i \in 2..(Len(text) - 1) :
          text[i] \in {"{", "U+4E2D"} /\ text[i - 1] = "a" /\ text[i + 1] = "a"
    /\ counted[2] = 2

(***************************************************************************)
(* C9: the two locations of resolve_path                                   *)
(***************************************************************************)
WorkingDirCandidate ==
    IF r_input[Len(r_input)] = ".tex" THEN r_input ELSE Append(r_input, ".tex")
ReferrerCandidate == Parent(r_base) \o WorkingDirCandidate

\* C9: resolve_path returns the working-directory candidate when it exists,
\* else the candidate in the referrer's directory when a referrer is given
\* and that candidate exists, else the working-directory candidate although
\* it does not exist; it returns nothing else.
C9_TwoLocations ==
    r_result # NoPath =>
        /\ Exists(WorkingDirCandidate) => r_result = WorkingDirCandidate
        /\ (~Exists(WorkingDirCandidate) /\ r_base # NoPath /\ Exists(ReferrerCandidate))
              => r_result = ReferrerCandidate
        /\ (~Exists(WorkingDirCandidate) /\ (r_base = NoPath \/ ~Exists(ReferrerCandidate)))
              => (r_result = WorkingDirCandidate /\ ~Exists(r_result))
        /\ r_result \in {WorkingDirCandidate} \cup
                        (IF r_base # NoPath THEN {ReferrerCandidate} ELSE {})

C9_Witness ==
    /\ r_result # NoPath /\ r_base # NoPath
    /\ Exists(WorkingDirCandidate) /\ Exists(ReferrerCandidate)
    /\ WorkingDirCandidate # ReferrerCandidate
    /\ r_result = WorkingDirCandidate

(***************************************************************************)
(* The tree and the references of its files                                *)
(***************************************************************************)
RECURSIVE SumFn(_)
SumFn(f) ==
    IF DOMAIN f = {} THEN 0
    ELSE LET x == CHOOSE x \in DOMAIN f : TRUE
         IN  f[x] + SumFn([y \in DOMAIN f \ {x} |-> f[y]])

NodeIds == 1..Len(nodes)
ChildSet(n) == {nodes[n].children[i] : i \in 1..Len(nodes[n].children)}

RECURSIVE Subtree(_)
Subtree(n) == {n} \cup UNION {Subtree(c) : c \in ChildSet(n)}

IsRead(n) == nodes[n].error = NoError
IsMissing(n) == nodes[n].error = "File not found"
ContentOf(p) == files[Resolve(p)].content

\* the paths the includes of the file of node n resolve to, in source order
Refs(n) ==
    LET inputs == FindInputs(StripComments(ContentOf(nodes[n].path)))
    IN  [k \in 1..Len(inputs) |-> resolve_path(nodes[n].path, inputs[k])]

Built == pc \in {"print", "done"} /\ root_node # None

(***************************************************************************)
(* C1: cycle safety                                                        *)
(***************************************************************************)
\* what is left to do: the files not yet processed, the inputs not yet
\* taken, the calls not yet returned and the position inside a call
Remaining ==
    LET unprocessed == Cardinality(DOMAIN files \ processed_files)
        perFile == 4 * SumFn([f \in DOMAIN files |-> Len(files[f].content)]) + 8
        inputs == SumFn([i \in 1..Len(stack) |-> Len(stack[i].inputs)])
        position == CASE pc = "done" -> 0 [] pc = "print" -> 1 [] pc = "loop" -> 2
                      [] pc = "ret" -> 3 [] pc = "call" -> 4 [] OTHER -> 5
    IN  IF pc = "main" THEN (Cardinality(DOMAIN files) + 1) * perFile
        ELSE unprocessed * perFile + 4 * inputs + 2 * Len(stack) + position

NoSelfInclusion ==
    \A n \in NodeIds : \A m \in Subtree(n) \ {n} :
        Resolve(nodes[m].path) # Resolve(nodes[n].path)

\* before main is done some step can be taken: a loop has its frame, and a
\* file to read is never refused for the depth of the recursion
NeverStuck ==
    /\ pc \in {"main", "call", "loop", "ret", "print", "done"}
    /\ pc = "loop" => stack # <<>>
    /\ pc = "ret" => (stack # <<>> \/ ret # None)
    /\ pc = "print" => root_node \in NodeIds
    /\ (pc = "call" /\ ~Seen(arg) /\ Exists(arg)) => Len(stack) < MaxStack

\* C1: process_file started on the root with an empty visited set terminates
\* (every step leaves less to do and the run never stops before main is
\* done), and no node of the tree has the resolved path of one of its
\* ancestors: a self-reference is omitted.
C1_CycleSafety ==
    /\ [][Remaining' < Remaining]_vars
    /\ [](Remaining >= 0 /\ NeverStuck)
    /\ []NoSelfInclusion

\* a file two levels down includes the root again, and main is done
C1_Witness ==
    /\ pc = "done" /\ root_node # None
    /\ \E n \in NodeIds : \E m \in Subtree(n) \ {n} :
          /\ IsRead(m)
          /\ \E k \in 1..Len(Refs(m)) : Resolve(Refs(m)[k]) = Resolve(nodes[n].path)

(***************************************************************************)
(* C2: a missing include                                                   *)
(***************************************************************************)
IsZeroErrorNode(node) ==
    /\ node.cn = 0 /\ node.en = 0 /\ node.total = 0
    /\ node.error \notin {NoError, ""}
    /\ node.children = <<>>

\* the step of process_file on an include whose resolved path does not exist
C2_MissingStep ==
    (pc = "call" /\ stack # <<>> /\ ~Exists(arg)) =>
        /\ Len(nodes') = Len(nodes) + 1
        /\ SubSeq(nodes', 1, Len(nodes)) = nodes
        /\ IsZeroErrorNode(nodes'[Len(nodes')])
        /\ nodes'[Len(nodes')].path = arg
        /\ ret' = Len(nodes')
        /\ processed_files' = processed_files
        /\ stack' = stack

\* the children of node n that are "File not found" nodes, in order
MissingChildren(n) ==
    LET missing == SelectSeq(nodes[n].children, IsMissing)
    IN  [i \in 1..Len(missing) |-> nodes[missing[i]].path]

\* C2: an include of a read file whose resolved path does not exist gets a
\* child node with zero counts, a non-empty error and no children; handling
\* it changes neither the visited set nor the includes still to process, and
\* in the finished tree every read file has one such child for each of its
\* missing includes, wherever in the file the include stands.
C2_MissingInclude ==
    /\ [][C2_MissingStep]_vars
    /\ [](\A n \in NodeIds : IsMissing(n) => IsZeroErrorNode(nodes[n]))
    /\ [](Built => \A n \in NodeIds : IsRead(n) =>
              MissingChildren(n) = SelectSeq(Refs(n), LAMBDA q : ~Exists(q)))

\* a missing include followed, in the same file, by an include that is read
C2_Witness ==
    /\ Built
    /\ \E n \in NodeIds : \E i \in 1..(Len(nodes[n].children) - 1) :
          /\ IsMissing(nodes[n].children[i])
          /\ IsRead(nodes[n].children[i + 1])

(***************************************************************************)
(* C3: a missing file referenced twice                                     *)
(***************************************************************************)
\* C3 as stated: the resolved path of a missing file is recorded in the
\* visited set, and the tree holds at most one "File not found" node per
\* resolved path.
C3_AsStated ==
    /\ \A n \in NodeIds : IsMissing(n) => Resolve(nodes[n].path) \in processed_files
    /\ \A n, m \in NodeIds :
          (IsMissing(n) /\ IsMissing(m) /\ Resolve(nodes[n].path) = Resolve(nodes[m].path))
              => n = m

MissingRefs(n) == Cardinality({k \in 1..Len(Refs(n)) : ~Exists(Refs(n)[k])})

\* C3 amended: the resolved path of a missing file is never recorded in the
\* visited set, and the tree holds one "File not found" node for every
\* reference to a missing file.
C3_OneNodePerReference ==
    /\ \A q \in processed_files : q \in DOMAIN files
    /\ Built => Cardinality({n \in NodeIds : IsMissing(n)})
                  = SumFn([n \in {m \in NodeIds : IsRead(m)} |-> MissingRefs(n)])

\* two "File not found" nodes with the same resolved path
C3_Witness ==
    /\ Built
    /\ \E n, m \in NodeIds :
          /\ n # m /\ IsMissing(n) /\ IsMissing(m)
          /\ Resolve(nodes[n].path) = Resolve(nodes[m].path)

(***************************************************************************)
(* C4: depth limiting                                                      *)
(***************************************************************************)
NodeLines == {i \in 1..Len(output) : output[i].kind \in {"root", "node"}}
\* the depth at which a line is indented, the root being at depth 0
LineDepth(l) == IF l.kind = "root" THEN 0 ELSE Len(l.prefix) + 1

RECURSIVE DepthOf(_)
DepthOf(n) ==
    IF n = root_node THEN 0
    ELSE 1 + DepthOf(CHOOSE m \in NodeIds : n \in ChildSet(m))

\* C4: with --max-depth d, the root being at depth 0, the nodes down to
\* depth d are printed and no node deeper than d is; with --max-depth 0 the
\* tree output is only the root line.
C4_DepthLimit ==
    (pc = "done" /\ root_node # None) =>
        \A d \in max_depth :
            /\ \A i \in NodeLines : LineDepth(output[i]) <= d
            /\ Cardinality(NodeLines) = Cardinality({n \in NodeIds : DepthOf(n) <= d})

(***************************************************************************)
(* C5: aggregation                                                         *)
(***************************************************************************)
OwnCounts(S) ==
    <<SumFn([n \in S |-> nodes[n].cn]), SumFn([n \in S |-> nodes[n].en])>>

GrandTotal ==
    LET l == output[CHOOSE i \in 1..Len(output) : output[i].kind = "grand total"]
    IN  <<l.cn, l.en, l.total>>

\* C5: calculate_total_stats of a node is the sum of the own counts of the
\* node and of all its descendants, it changes no node, and the GRAND TOTAL
\* that main prints is the sum of the own counts of every node of the tree
\* whatever --max-depth is.
C5_Aggregation ==
    /\ [](Built => \A n \in NodeIds : calculate_total_stats(n) = OwnCounts(Subtree(n)))
    /\ []((pc = "done" /\ root_node # None) =>
             /\ Subtree(root_node) = NodeIds
             /\ GrandTotal = <<OwnCounts(NodeIds)[1], OwnCounts(NodeIds)[2],
                               OwnCounts(NodeIds)[1] + OwnCounts(NodeIds)[2]>>)
    /\ [][pc = "print" => nodes' = nodes]_vars

\* a depth limit hides a grandchild of the root whose counts are in the total
C5_Witness ==
    /\ pc = "done" /\ root_node # None /\ max_depth = {1}
    /\ \E n \in NodeIds : DepthOf(n) = 2 /\ nodes[n].total > 0
    /\ GrandTotal[3] > nodes[root_node].total

(***************************************************************************)
(* C6: commented-out includes                                              *)
(***************************************************************************)
\* position i of s lies after a comment marker on its line
Commented(s, i) ==
    \E k \in 1..(i - 1) : s[k] = "%" /\ \A m \in k..(i - 1) : s[m] # "\n"

\* an \input{...} or \include{...} starts at position i of s
IncludeAt(s, i) ==
    /\ s[i] \in {"\\input", "\\include"}
    /\ i + 1 <= Len(s) /\ s[i + 1] = "{"
    /\ FirstAt(s, i + 2, "}") > i + 2

TargetAt(s, i) == SubSeq(s, i + 2, FirstAt(s, i + 2, "}") - 1)

\* the paths of the includes of file path p that stand outside comments
LivePaths(p) ==
    LET s == ContentOf(p)
    IN  {resolve_path(p, TargetAt(s, i)) :
            i \in {j \in 1..Len(s) : IncludeAt(s, j) /\ ~Commented(s, j)}}

\* the paths of the includes of file path p that are commented out
DeadPaths(p) ==
    LET s == ContentOf(p)
    IN  {resolve_path(p, TargetAt(s, i)) :
            i \in {j \in 1..Len(s) : IncludeAt(s, j) /\ Commented(s, j)}}

ReadPaths == {nodes[n].path : n \in {m \in NodeIds : IsRead(m)}}
AllLivePaths == UNION {LivePaths(p) : p \in ReadPaths}

\* C6: only includes outside comments are followed: every path handed to
\* process_file by a loop, every path still to be resolved, every child node
\* and every entry of the visited set other than the root comes from an
\* include that is not commented out.
C6_CommentedIncludes ==
    /\ (pc = "call" /\ stack # <<>>) => arg \in LivePaths(Top.file_path)
    /\ \A i \in 1..Len(stack) : \A k \in 1..Len(stack[i].inputs) :
          resolve_path(stack[i].file_path, stack[i].inputs[k]) \in LivePaths(stack[i].file_path)
    /\ \A n \in NodeIds : \A c \in ChildSet(n) : nodes[c].path \in LivePaths(nodes[n].path)
    /\ \A n \in NodeIds \ {1} : nodes[n].path \in AllLivePaths
    /\ \A q \in processed_files :
          q = Resolve(nodes[1].path) \/ q \in {Resolve(p) : p \in AllLivePaths}

\* a commented-out include of an existing file that the run never visits
C6_Witness ==
    /\ pc = "done" /\ root_node # None
    /\ \E p \in ReadPaths : \E q \in DeadPaths(p) :
          /\ Exists(q) /\ Resolve(q) \notin processed_files
          /\ \A n \in NodeIds : nodes[n].path # q
    /\ Len(nodes) > 1

(***************************************************************************)
(* C7: errors rendered inline                                              *)
(***************************************************************************)
\* C7: every node of the tree that carries an error has it rendered on its
\* own output line, the root included (no depth limit given).
C7_ErrorsRendered ==
    (pc = "done" /\ root_node # None /\ max_depth = {}) =>
        \A n \in NodeIds : nodes[n].error # NoError =>
            \E i \in NodeLines :
                /\ output[i].path = nodes[n].path
                /\ output[i].error = nodes[n].error
                /\ LineDepth(output[i]) = DepthOf(n)

(***************************************************************************)
(* C10: every existing file is counted once                                *)
(***************************************************************************)
Readable(p) == Exists(p) /\ files[Resolve(p)].readable

\* the paths reachable from the set S of paths through the includes, outside
\* comments, of the files that can be read
RECURSIVE Reach(_)
Reach(S) ==
    LET more == S \cup UNION {LivePaths(p) : p \in {q \in S : Readable(q)}}
    IN  IF more = S THEN S ELSE Reach(more)

ReachableFiles == {Resolve(p) : p \in {q \in Reach({nodes[root_node].path}) : Exists(q)}}

LastOf(n) == CHOOSE m \in Subtree(n) : \A k \in Subtree(n) : k <= m

\* the files visited when the nodes 1..t have been created
VisitedBy(t) == {Resolve(nodes[n].path) : n \in {m \in 1..t : Exists(nodes[m].path)}}

\* the includes of node n from the k-th on, taken in source order when the
\* nodes 1..t exist and n has j - 1 children: an include gets the next node,
\* as the next child of n, exactly when its file is missing or was not
\* visited before, anywhere in the tree
RECURSIVE FirstReferences(_, _, _, _)
FirstReferences(n, k, j, t) ==
    IF k > Len(Refs(n)) THEN j = Len(nodes[n].children) + 1 /\ t = LastOf(n)
    ELSE LET q == Refs(n)[k]
         IN  IF ~Exists(q) \/ Resolve(q) \notin VisitedBy(t)
             THEN /\ j <= Len(nodes[n].children)
                  /\ nodes[n].children[j] = t + 1
                  /\ nodes[t + 1].path = q
                  /\ FirstReferences(n, k + 1, j + 1, LastOf(t + 1))
             ELSE FirstReferences(n, k + 1, j, t)

\* C10: in the finished tree every existing file reachable from the root is
\* the resolved path of exactly one node, which stands at the first reference
\* to the file in depth-first source order, every later reference adds no
\* child, and the visited set, which only grows, is the set of those files.
C10_CountedOnce ==
    /\ [](Built =>
            /\ \A f \in ReachableFiles :
                  Cardinality({n \in NodeIds : Resolve(nodes[n].path) = f}) = 1
            /\ processed_files = ReachableFiles
            /\ processed_files = VisitedBy(Len(nodes))
            /\ \A n \in NodeIds : IF IsRead(n) THEN FirstReferences(n, 1, 1, n)
                                  ELSE nodes[n].children = <<>>)
    /\ [][processed_files \subseteq processed_files']_vars

\* an existing file referenced from two different files, under two spellings
C10_Witness ==
    /\ Built
    /\ \E n, m \in {x \in NodeIds : IsRead(x)} :
        \E k \in 1..Len(Refs(n)), j \in 1..Len(Refs(m)) :
          /\ n # m
          /\ Refs(n)[k] # Refs(m)[j]
          /\ Exists(Refs(n)[k])
          /\ Resolve(Refs(n)[k]) = Resolve(Refs(m)[j])

====
